---------------------------- MODULE Spec2Model ----------------------------
(***************************************************************************)
(* A model of the plan execution engine of AI-Operation-Assistant:         *)
(*   - ExecutorAgent.execute_plan / _execute_step (src/agents/executor.py) *)
(*   - retry_api_call (src/tools/retry_utils.py)                           *)
(*   - VerifierAgent.verify_and_format (src/agents/verifier.py)            *)
(*   - main.execute_task over the workflow steps (src/main.py)             *)
(* The specifications of the module: Spec and FairSpec (the executor),     *)
(* RetrySpec (one wrapped remote call), ToolCallSpec (one network-bound    *)
(* operation), VerifySpec (the aggregation loop) and PipelineSpec (one     *)
(* request through planner, executor and verifier).                        *)
(***************************************************************************)
EXTENDS Integers, Sequences, FiniteSets, TLC

VARIABLES
    \* ---- executor (execute_plan) ----
    plan,            \* plan.steps: sequence of [tool, action, params]; params are mutable
    plan0,           \* the plan as handed to execute_plan (never changes)
    i,               \* loop index of execute_plan (1-based here, 0-based in the code)
    pc,              \* position of execute_plan
    parallel_batch,  \* sequence of step indices of the batch being run
    task,            \* step index -> state of its coroutine
    taskResult,      \* step index -> what _execute_step produced for it
    results,         \* the result list of execute_plan
    calls,           \* history: the _execute_step calls, in start order
    closed,          \* tools whose HTTP client has been closed
    invocations,     \* history: step index -> the call of the tool's operation (line 244)
    \* ---- retry_api_call ----
    rpc,             \* position of the retrying call
    attempt,         \* tenacity's attempt_number
    delays,          \* history: the sleeps performed, in order
    outcomes,        \* history: what each attempt of the operation did
    routcome,        \* what the wrapped call gave its caller
    rtool,           \* the tool whose network-bound operation is called
    rresult,         \* the success flag of the payload the operation returned
    \* ---- verify_and_format ----
    vin,             \* execution_result.results handed to the verifier
    vpc,             \* position of verify_and_format
    vpos,            \* index into successful_steps
    collected_data,  \* the details map (an ordered dict node)
    sources,         \* the sources list
    suggestions,     \* the suggestions list
    correction_notes,\* the correction_notes list
    llm_client,      \* llm/client.py: the module's _llm_client singleton
    openai_key,      \* whether OPENAI_API_KEY is set in the environment
    summary,         \* FinalResult.summary
    verified,        \* FinalResult.verified
    verification_notes, \* FinalResult.verification_notes
    vtask,           \* the task verify_and_format is given
    narration,       \* history: what the narrator answered
    \* ---- main.execute_task ----
    request_task,    \* TaskRequest.task
    tool_keys,       \* the tool API keys set in the environment
    ppc,             \* position of execute_task
    stages,          \* history: the stages invoked, in order
    plan_data,       \* what planner_step returned
    execution_result,\* the results executor_step returned
    fault,           \* the stage that raised and what it raised
    http_status,     \* HTTP status of the answer
    body,            \* the answer's JSON object
    open_handles     \* the tools whose HTTP client is open

execVars   == <<plan, plan0, i, pc, parallel_batch, task, taskResult, results, calls, closed,
                invocations>>
retryVars  == <<rpc, attempt, delays, outcomes, routcome, rtool, rresult>>
verifyData == <<vin, vpc, vpos, collected_data, sources, suggestions, correction_notes,
                summary, verified, verification_notes, vtask, narration>>
llmVars    == <<llm_client, openai_key>>
verifyVars == <<verifyData, llmVars>>
pipeVars   == <<request_task, tool_keys, ppc, stages, plan_data, execution_result, fault,
                http_status, body, open_handles>>
vars       == <<execVars, retryVars, verifyVars, pipeVars>>

-----------------------------------------------------------------------------
(* Bounds of the model *)

MaxSteps == 3
MaxResults == 3

-----------------------------------------------------------------------------
(* Python values.  A value is a node [t, s, kids]: t is its type, s the    *)
(* text of a scalar, kids the ordered entries of a dict ([k, v], in        *)
(* insertion order) or the items of a list ([k |-> "", v]).                *)

None == [t |-> "none", s |-> "", kids |-> <<>>]
Str(x) == [t |-> "str", s |-> x, kids |-> <<>>]
Bool(b) == [t |-> "bool", s |-> IF b THEN "True" ELSE "False", kids |-> <<>>]
Entry(key, val) == [k |-> key, v |-> val]
Dict(entries) == [t |-> "dict", s |-> "", kids |-> entries]
List(items) == [t |-> "list", s |-> "", kids |-> [n \in 1..Len(items) |-> Entry("", items[n])]]

IsDict(d) == d.t = "dict"
IsList(d) == d.t = "list"
IsStr(d) == d.t = "str"
Items(l) == [n \in 1..Len(l.kids) |-> l.kids[n].v]
Keys(d) == {d.kids[n].k : n \in 1..Len(d.kids)}
HasKey(d, key) == IsDict(d) /\ key \in Keys(d)
\* d[key] / d.get(key): the value under key, None when absent
Get(d, key) ==
    IF HasKey(d, key)
    THEN d.kids[CHOOSE n \in 1..Len(d.kids) : d.kids[n].k = key].v
    ELSE None
\* d[key] = val: replaces in place, or appends a new last entry
SetKey(d, key, val) ==
    IF HasKey(d, key)
    THEN Dict([n \in 1..Len(d.kids) |->
                 IF d.kids[n].k = key THEN Entry(key, val) ELSE d.kids[n]])
    ELSE Dict(Append(d.kids, Entry(key, val)))
\* Python truthiness of a value
Truthy(d) ==
    CASE d.t = "none" -> FALSE
      [] d.t = "bool" -> d.s = "True"
      [] d.t = "str"  -> d.s # ""
      [] OTHER        -> Len(d.kids) > 0

-----------------------------------------------------------------------------
(* models/schemas.py *)

Absent == "<absent>"
NoError == [kind |-> "none", arg |-> ""]
ErrorMsg(kind, arg) == [kind |-> kind, arg |-> arg]

ToolResult(tool, success, data, error) ==
    [tool |-> tool, success |-> success, data |-> data, error |-> error]

\* step.params: every key the model uses, Absent when the key is not in the dict
Params(title, query, city, extra) ==
    [title |-> title, query |-> query, city |-> city, extra |-> extra]
ParamKeys == {"title", "query", "city", "extra"}
NoParams == Params(Absent, Absent, Absent, Absent)
PlanStep(tool, action, params) == [tool |-> tool, action |-> action, params |-> params]


-----------------------------------------------------------------------------
(* The tools (src/tools/*.py), as far as the plans of the model use them *)

Registry == {"github", "weather", "news", "countries", "crypto", "wikipedia"}

\* hasattr(tool, action) for the operations the model's plans name
Attributes(tool) ==
    CASE tool = "wikipedia" -> {"search", "get_summary", "get_article_html", "close"}
      [] tool = "weather"   -> {"get_current_weather", "close"}
      [] OTHER              -> {"close"}

\* the operations a tool offers to plans: its public coroutines other than the
\* release of its client
Operations(tool) ==
    CASE tool = "wikipedia" -> {"search", "get_summary", "get_article_html"}
      [] tool = "weather"   -> {"get_current_weather"}
      [] OTHER              -> {}

\* inspect.signature(method).parameters, restricted to ParamKeys
ValidParams(tool, action) ==
    CASE action = "search"              -> {"query"}
      [] action = "get_summary"         -> {"title"}
      [] action = "get_article_html"    -> {"title"}
      [] action = "get_current_weather" -> {"city"}
      [] OTHER                          -> {}

\* the parameters without a default: calling without one raises TypeError
RequiredParams(tool, action) == ValidParams(tool, action)

SearchItem(title) ==
    Dict(<<Entry("title", Str(title)),
           Entry("description", Str("")),
           Entry("url", Str(title))>>)

FailurePayload(msg) == Dict(<<Entry("success", Bool(FALSE)), Entry("error", Str(msg))>>)

\* what the remote service may answer to one operation
Responses(tool, action) ==
    CASE action = "search" -> {"ok", "ok_empty", "fail"}
      [] action = "close"  -> {"ok"}
      [] OTHER             -> {"ok", "fail"}

\* the payload an operation returns for a remote answer
ToolReturn(tool, action, fp, resp) ==
    CASE action = "close" -> None
      [] resp = "fail" /\ tool = "wikipedia" -> FailurePayload("Wikipedia API error")
      [] resp = "fail" -> FailurePayload("Weather API error")
      [] action = "search" ->
            Dict(<<Entry("success", Bool(TRUE)),
                   Entry("query", Str(fp.query)),
                   Entry("results",
                         IF resp = "ok_empty" THEN List(<<>>)
                         ELSE List(<<SearchItem("Nepal (country)"),
                                     SearchItem("History of Nepal")>>))>>)
      [] action = "get_summary" ->
            Dict(<<Entry("success", Bool(TRUE)),
                   Entry("title", Str(fp.title)),
                   Entry("extract", Str("text")),
                   Entry("url", Str(fp.title))>>)
      [] action = "get_article_html" ->
            Dict(<<Entry("success", Bool(TRUE)),
                   Entry("title", Str(fp.title)),
                   Entry("html", Str("text"))>>)
      [] OTHER ->
            Dict(<<Entry("success", Bool(TRUE)),
                   Entry("city", Str(fp.city)),
                   Entry("temperature", Str("20C"))>>)

-----------------------------------------------------------------------------
(* ExecutorAgent._execute_step.  The coroutine runs from its call to the   *)
(* await of the tool's operation (ExecuteStepStart) and from the           *)
(* operation's answer to its return (ExecuteStepFinish).  An outcome is a  *)
(* returned ToolResult, a raised fault, or "await".                        *)

NoResult == ToolResult("", FALSE, None, NoError)
Returned(r) == [kind |-> "return", result |-> r, fault |-> ""]
Raised(f) == [kind |-> "raise", result |-> NoResult, fault |-> f]
Awaiting == [kind |-> "await", result |-> NoResult, fault |-> ""]

FilterNothing(params, valid) == params

\* lines 229-233: {k: v for k, v in params.items() if k in valid_params}
FilterParams(params, valid) ==
    [key \in ParamKeys |-> IF key \in valid THEN params[key] ELSE Absent]

NormalizeIgnoringFlag(tool_name, result_data) ==
    ToolResult(tool_name, TRUE, result_data, NoError)

\* lines 246-280
Normalize(tool_name, result_data) ==
    IF IsDict(result_data) /\ HasKey(result_data, "success")
    THEN IF Truthy(Get(result_data, "success"))
         THEN ToolResult(tool_name, TRUE, result_data, NoError)
         ELSE ToolResult(tool_name, FALSE, None,
                         IF HasKey(result_data, "error")
                         THEN ErrorMsg("message", Get(result_data, "error").s)
                         ELSE ErrorMsg("message", "Unknown error"))
    ELSE ToolResult(tool_name, TRUE, result_data, NoError)

ToolMissingRaises(step) == Raised("KeyError")

\* lines 209-216: tool = self.tools.get(tool_name); if not tool: ...
ToolMissing(step) ==
    Returned(ToolResult(step.tool, FALSE, None, ErrorMsg("Tool not found", step.tool)))

\* lines 219-225
ActionMissing(step) ==
    Returned(ToolResult(step.tool, FALSE, None, ErrorMsg("Action not found", step.action)))

\* An operation called on a closed client: httpx raises RuntimeError before any
\* suspension.  search, get_summary and get_current_weather catch Exception and
\* return a failure payload; get_article_html catches httpx.HTTPError only.
OnClosedClient(step) ==
    IF step.action = "get_article_html"
    THEN Raised("RuntimeError")
    ELSE Returned(Normalize(step.tool, FailurePayload("Unexpected error")))

\* lines 207-244, up to the await
TryStart(step, closedTools) ==
    LET filtered == FilterParams(step.params, ValidParams(step.tool, step.action)) IN
    IF step.tool \notin Registry
    THEN ToolMissing(step)
    ELSE IF step.action \notin Attributes(step.tool)
    THEN ActionMissing(step)
    ELSE IF \E key \in RequiredParams(step.tool, step.action) : filtered[key] = Absent
    THEN Raised("TypeError")
    ELSE IF step.tool \in closedTools /\ step.action # "close"
    THEN OnClosedClient(step)
    ELSE Awaiting

\* lines 244-280, from the operation's answer
TryFinish(step, resp) ==
    LET filtered == FilterParams(step.params, ValidParams(step.tool, step.action)) IN
    Returned(Normalize(step.tool, ToolReturn(step.tool, step.action, filtered, resp)))

CatchNothing(tool_name, outcome) == outcome

\* lines 282-291: except Exception
Catch(tool_name, outcome) ==
    IF outcome.kind = "raise"
    THEN Returned(ToolResult(tool_name, FALSE, None, ErrorMsg("Execution error", outcome.fault)))
    ELSE outcome

\* line 244 is reached and the arguments bind: the operation is called
MethodCalled(step) ==
    LET filtered == FilterParams(step.params, ValidParams(step.tool, step.action)) IN
    /\ step.tool \in Registry
    /\ step.action \in Attributes(step.tool)
    /\ \A key \in RequiredParams(step.tool, step.action) : filtered[key] # Absent

\* the record of one step's call of its operation: whether it was called, the
\* keyword arguments of the call, and the payload it answered with
NotInvoked == [called |-> FALSE, kwargs |-> NoParams, answered |-> FALSE, payload |-> None]

\* line 244: method(**filtered_params)
Invoke(inv, k, step) ==
    IF MethodCalled(step)
    THEN [inv EXCEPT ![k] =
            [called |-> TRUE,
             kwargs |-> FilterParams(step.params, ValidParams(step.tool, step.action)),
             answered |-> FALSE, payload |-> None]]
    ELSE inv

\* line 244: result_data = await ...
Answer(inv, k, step, resp) ==
    [inv EXCEPT ![k].answered = TRUE,
                ![k].payload =
                    ToolReturn(step.tool, step.action,
                               FilterParams(step.params, ValidParams(step.tool, step.action)),
                               resp)]

ExecuteStepStart(step, closedTools) == Catch(step.tool, TryStart(step, closedTools))
ExecuteStepFinish(step, resp) == Catch(step.tool, TryFinish(step, resp))

-----------------------------------------------------------------------------
(* ExecutorAgent.execute_plan *)

Range(seq) == {seq[n] : n \in 1..Len(seq)}
Last(seq) == seq[Len(seq)]

DependsNever(steps, k) == FALSE

\* lines 73-77 (k is 1-based: "i > 0" reads k > 1)
DependsOnPrevious(steps, k) ==
    /\ steps[k].tool = "wikipedia" /\ steps[k].action = "get_summary"
    /\ k > 1
    /\ steps[k - 1].tool = "wikipedia" /\ steps[k - 1].action = "search"

AccumulateOne(steps, k, batch) == [i |-> k + 1, batch |-> Append(batch, k)]

\* lines 66-84: the inner while loop, from index k with the batch so far
RECURSIVE AccumulateBatch(_, _, _)
AccumulateBatch(steps, k, batch) ==
    IF k > Len(steps) THEN [i |-> k, batch |-> batch]
    ELSE IF DependsOnPrevious(steps, k) /\ Len(batch) > 0 THEN [i |-> k, batch |-> batch]
    ELSE AccumulateBatch(steps, k + 1, Append(batch, k))

TasksCreatedFirstOnly(batch) == {batch[1]}

\* line 123: gather wraps every member of the batch in a task before it is awaited
TasksCreated(batch) == Range(batch)

\* line 123: gather's result list is in argument order, whatever the completion order
Gather(batch, tr) ==
    [n \in 1..Len(batch) |-> [idx |-> batch[n], result |-> tr[batch[n]].result]]

\* line 129: batch_results.sort(key=lambda x: x[0])
SortByIndex(seq) ==
    [n \in 1..Len(seq) |->
        seq[CHOOSE m \in 1..Len(seq) :
              Cardinality({q \in 1..Len(seq) : seq[q].idx < seq[m].idx}) = n - 1]]

ExtendSuccessfulOnly(res, batch_results) ==
    res \o SelectSeq([n \in 1..Len(batch_results) |-> batch_results[n].result],
                     LAMBDA r : r.success)

\* line 130: results.extend([r for _, r in batch_results])
Extend(res, batch_results) ==
    res \o [n \in 1..Len(batch_results) |-> batch_results[n].result]

InjectNothing(step, res) == step.params

InjectAsQuery(step, res) ==
    IF /\ step.tool = "wikipedia" /\ step.action = "get_summary"
       /\ Len(res) > 0 /\ Last(res).success
    THEN [step.params EXCEPT !.query = "Nepal (country)"]
    ELSE step.params

InjectOverriding(step, res) ==
    IF /\ step.tool = "wikipedia" /\ step.action = "get_summary"
       /\ Len(res) > 0 /\ Last(res).tool = "wikipedia"
       /\ Last(res).success /\ Truthy(Last(res).data)
       /\ Truthy(Get(Last(res).data, "results"))
    THEN [step.params EXCEPT
            !.title = Get(Items(Get(Last(res).data, "results"))[1], "title").s]
    ELSE step.params

\* lines 147-158: the params of the dependent step after parameter injection
InjectedParams(step, res) ==
    IF /\ step.tool = "wikipedia" /\ step.action = "get_summary"
       /\ Len(res) > 0 /\ Last(res).tool = "wikipedia"
       /\ Last(res).success /\ Truthy(Last(res).data)
    THEN LET prev_result == Last(res).data IN
         IF \/ step.params.title = Absent
            \/ Str(step.params.title) = Get(prev_result, "query")
         THEN IF Truthy(Get(prev_result, "results"))
                 /\ Len(Get(prev_result, "results").kids) > 0
              THEN [step.params EXCEPT
                      !.title = Get(Items(Get(prev_result, "results"))[1], "title").s]
              ELSE step.params
         ELSE step.params
    ELSE step.params

StayAtDependent(k) == k

\* line 171
AfterDependent(k) == k + 1

\* the plans execute_plan is given
StepTemplates ==
    { PlanStep("wikipedia", "search", Params(Absent, "Nepal", Absent, Absent)),
      PlanStep("wikipedia", "get_summary", Params("Nepal", Absent, Absent, Absent)),
      PlanStep("wikipedia", "get_summary", NoParams),
      PlanStep("wikipedia", "get_summary", Params("Everest", Absent, Absent, Absent)),
      PlanStep("wikipedia", "get_article_html", Params("Everest", Absent, Absent, Absent)),
      PlanStep("weather", "get_current_weather", Params(Absent, Absent, "Paris", Absent)),
      PlanStep("weather", "get_current_weather", Params(Absent, "Paris", "Paris", "hourly")),
      PlanStep("doesnotexist", "get_data", NoParams),
      PlanStep("weather", "nosuch", NoParams),
      PlanStep("wikipedia", "close", NoParams) }

Plans == UNION {[1..n -> StepTemplates] : n \in 0..MaxSteps}

\* one _execute_step call: the step, its params, and what the caller's result
\* list and the clients were when it was made
Call(k, params, res, closedTools) ==
    [idx |-> k, params |-> params, nresults |-> Len(res), closedAt |-> closedTools]

NoFault == [type |-> "none", status |-> 0]
NoOutcome == [kind |-> "none", fault |-> NoFault]

RetryIdle ==
    /\ rpc = "idle" /\ attempt = 0 /\ delays = <<>> /\ outcomes = <<>>
    /\ routcome = NoOutcome
    /\ rtool = "" /\ rresult = "none"

VerifierAtRest ==
    /\ vin = <<>> /\ vpc = "idle" /\ vpos = 0 /\ collected_data = Dict(<<>>) /\ sources = <<>>
    /\ suggestions = <<>> /\ correction_notes = <<>>
    /\ summary = "" /\ verified = FALSE /\ verification_notes = None
    /\ vtask = "" /\ narration = "none"

VerifyIdle ==
    /\ VerifierAtRest
    /\ llm_client = "none" /\ openai_key = FALSE

NoStageFault == [stage |-> "", type |-> ""]
NoBody == [detail |-> ""]

PipeIdle ==
    /\ request_task = "" /\ tool_keys = {} /\ ppc = "idle" /\ stages = <<>>
    /\ plan_data = <<>> /\ execution_result = <<>> /\ fault = NoStageFault
    /\ http_status = 0 /\ body = NoBody /\ open_handles = {}

Init ==
    /\ plan \in Plans
    /\ plan0 = plan
    /\ i = 1
    /\ pc = "loop"
    /\ parallel_batch = <<>>
    /\ task = [k \in 1..Len(plan) |-> "none"]
    /\ taskResult = [k \in 1..Len(plan) |-> Awaiting]
    /\ results = <<>>
    /\ calls = <<>>
    /\ closed = {}
    /\ invocations = [k \in 1..Len(plan) |-> NotInvoked]
    /\ RetryIdle
    /\ VerifyIdle
    /\ PipeIdle

\* the client of a tool is closed by its close(), when that is what the step calls
ClosedBy(step, outcome, closedTools) ==
    IF outcome.kind = "await" /\ step.action = "close"
    THEN closedTools \cup {step.tool}
    ELSE closedTools

\* lines 64-123: accumulate a batch and hand it to gather
Dispatch ==
    /\ pc = "loop" /\ i <= Len(plan)
    /\ LET acc == AccumulateBatch(plan, i, <<>>) IN
        /\ i' = acc.i
        /\ parallel_batch' = acc.batch
        /\ IF Len(acc.batch) > 0
           THEN /\ task' = [k \in 1..Len(plan) |->
                              IF k \in TasksCreated(acc.batch) THEN "created" ELSE task[k]]
                /\ pc' = "await_gather"
           ELSE /\ task' = task
                /\ pc' = "dependent"
    /\ UNCHANGED <<plan, plan0, taskResult, results, calls, closed, invocations,
                   retryVars, verifyVars, pipeVars>>

\* lines 93-105: a task of the batch runs _execute_step up to its await.
\* The event loop starts the tasks in the order gather created them.
TaskStart(k) ==
    /\ pc = "await_gather" /\ task[k] = "created"
    /\ \A j \in 1..(k - 1) : task[j] # "created"
    /\ LET out == ExecuteStepStart(plan[k], closed) IN
        /\ calls' = Append(calls, Call(k, plan[k].params, results, closed))
        /\ closed' = ClosedBy(plan[k], out, closed)
        /\ invocations' = Invoke(invocations, k, plan[k])
        /\ IF out.kind = "await"
           THEN /\ task' = [task EXCEPT ![k] = "inflight"]
                /\ taskResult' = taskResult
           ELSE /\ task' = [task EXCEPT ![k] = "done"]
                /\ taskResult' = [taskResult EXCEPT ![k] = out]
    /\ UNCHANGED <<plan, plan0, i, pc, parallel_batch, results, retryVars, verifyVars, pipeVars>>

\* lines 105-118: the operation of an in-flight task answers
TaskComplete(k) ==
    /\ pc = "await_gather" /\ task[k] = "inflight"
    /\ \E resp \in Responses(plan[k].tool, plan[k].action) :
         /\ taskResult' = [taskResult EXCEPT ![k] = ExecuteStepFinish(plan[k], resp)]
         /\ invocations' = Answer(invocations, k, plan[k], resp)
    /\ task' = [task EXCEPT ![k] = "done"]
    /\ UNCHANGED <<plan, plan0, i, pc, parallel_batch, results, calls, closed,
                   retryVars, verifyVars, pipeVars>>

BatchRaised == \E k \in Range(parallel_batch) : taskResult[k].kind = "raise"

GatherDoneFirstCompleted(batch, t) == \E k \in Range(batch) : t[k] = "done"

\* line 123: await asyncio.gather(...) resumes when every member has finished
GatherDone(batch, t) == \A k \in Range(batch) : t[k] = "done"

\* lines 123-133: gather returns (or raises what a member raised)
Join ==
    /\ pc = "await_gather"
    /\ BatchRaised \/ GatherDone(parallel_batch, task)
    /\ IF BatchRaised
       THEN /\ pc' = "raised"
            /\ results' = results
       ELSE /\ results' = Extend(results, SortByIndex(Gather(parallel_batch, taskResult)))
            /\ pc' = IF i <= Len(plan) THEN "dependent" ELSE "loop"
    /\ UNCHANGED <<plan, plan0, i, parallel_batch, task, taskResult, calls, closed, invocations,
                   retryVars, verifyVars, pipeVars>>

\* lines 133-160: parameter injection, then _execute_step up to its await
DependentStart ==
    /\ pc = "dependent"
    /\ LET step == [plan[i] EXCEPT !.params = InjectedParams(plan[i], results)]
           out == ExecuteStepStart(step, closed)
       IN
        /\ plan' = [plan EXCEPT ![i] = step]
        /\ calls' = Append(calls, Call(i, step.params, results, closed))
        /\ closed' = ClosedBy(step, out, closed)
        /\ invocations' = Invoke(invocations, i, step)
        /\ IF out.kind = "await"
           THEN /\ task' = [task EXCEPT ![i] = "inflight"]
                /\ taskResult' = taskResult
           ELSE /\ task' = [task EXCEPT ![i] = "done"]
                /\ taskResult' = [taskResult EXCEPT ![i] = out]
    /\ pc' = "await_dependent"
    /\ UNCHANGED <<plan0, i, parallel_batch, results, retryVars, verifyVars, pipeVars>>

\* line 160: the operation of the dependent step answers
DependentComplete ==
    /\ pc = "await_dependent" /\ task[i] = "inflight"
    /\ \E resp \in Responses(plan[i].tool, plan[i].action) :
         /\ taskResult' = [taskResult EXCEPT ![i] = ExecuteStepFinish(plan[i], resp)]
         /\ invocations' = Answer(invocations, i, plan[i], resp)
    /\ task' = [task EXCEPT ![i] = "done"]
    /\ UNCHANGED <<plan, plan0, i, pc, parallel_batch, results, calls, closed,
                   retryVars, verifyVars, pipeVars>>

\* lines 160-171
DependentAppend ==
    /\ pc = "await_dependent" /\ task[i] = "done"
    /\ IF taskResult[i].kind = "raise"
       THEN /\ pc' = "raised"
            /\ UNCHANGED <<results, i>>
       ELSE /\ results' = Append(results, taskResult[i].result)
            /\ i' = AfterDependent(i)
            /\ pc' = "loop"
    /\ UNCHANGED <<plan, plan0, parallel_batch, task, taskResult, calls, closed, invocations,
                   retryVars, verifyVars, pipeVars>>

\* lines 173-186
Return ==
    /\ pc = "loop" /\ i > Len(plan)
    /\ pc' = "done"
    /\ UNCHANGED <<plan, plan0, i, parallel_batch, task, taskResult, results, calls, closed,
                   invocations, retryVars, verifyVars, pipeVars>>

\* ExecutorAgent.close, lines 293-297: called by the owner of the executor once
\* execute_plan has returned
Close ==
    /\ pc = "done"
    /\ closed' = closed \cup {tool \in Registry : "close" \in Attributes(tool)}
    /\ pc' = "closed"
    /\ UNCHANGED <<plan, plan0, i, parallel_batch, task, taskResult, results, calls,
                   invocations, retryVars, verifyVars, pipeVars>>

Next ==
    \/ Dispatch
    \/ \E k \in 1..Len(plan) : TaskStart(k)
    \/ \E k \in 1..Len(plan) : TaskComplete(k)
    \/ Join
    \/ DependentStart
    \/ DependentComplete
    \/ DependentAppend
    \/ Return
    \/ Close

Spec == Init /\ [][Next]_vars

\* execute_plan on an event loop that keeps running: every operation that was
\* awaited answers, and the coroutine is resumed when it can go on
FairSpec == Spec /\ WF_vars(Next)

-----------------------------------------------------------------------------
(* Properties of execute_plan and _execute_step *)

\* A declared-dependent step of the plan as given: wikipedia.get_summary whose
\* immediate predecessor is wikipedia.search
DeclaredDependent(k) ==
    /\ k \in 2..Len(plan0)
    /\ plan0[k].tool = "wikipedia" /\ plan0[k].action = "get_summary"
    /\ plan0[k - 1].tool = "wikipedia" /\ plan0[k - 1].action = "search"

\* the outcome _execute_step produced for step k
OutcomeOf(k) == taskResult[k].result

CallsOf(k) == {n \in 1..Len(calls) : calls[n].idx = k}

\* C1: the result list is index-aligned with the plan: at every moment entry k of
\* results is the outcome of step k and carries step k's tool, and when
\* execute_plan returns the list has one entry per step.
C1_ResultsAligned ==
    /\ Len(results) <= Len(plan0)
    /\ \A k \in 1..Len(results) :
         /\ results[k].tool = plan0[k].tool
         /\ task[k] = "done" /\ results[k] = OutcomeOf(k)
    /\ pc = "done" => Len(results) = Len(plan0)

\* C1 witness: a three-step plan has returned, with a success and a failure
\* among the outcomes of its first batch
C1_Witness ==
    /\ pc = "done" /\ Len(plan0) = 3 /\ Len(results) = 3
    /\ ~results[1].success /\ results[2].success /\ results[3].success
    /\ ~DeclaredDependent(2) /\ ~DeclaredDependent(3)

\* C2: whenever _execute_step is called for a declared-dependent step k, the
\* result list holds exactly k-1 entries and its last entry is the outcome of
\* step k-1.
C2_DependentAfterPredecessor ==
    \A n \in 1..Len(calls) :
        DeclaredDependent(calls[n].idx) =>
            /\ calls[n].nresults = calls[n].idx - 1
            /\ Len(results) >= calls[n].idx - 1
            /\ task[calls[n].idx - 1] = "done"
            /\ results[calls[n].idx - 1] = OutcomeOf(calls[n].idx - 1)

\* C2 witness: the dependent step is the third step and is being executed after
\* a batch of two
C2_Witness ==
    /\ pc = "await_dependent" /\ i = 3 /\ DeclaredDependent(3)
    /\ Len(results) = 2 /\ CallsOf(3) # {}

\* the title of the first item of the search payload of step k-1, Absent
\* when the payload lists no item
FirstTitle(k) ==
    LET items == Get(results[k - 1].data, "results") IN
    IF IsList(items) /\ Len(items.kids) > 0
    THEN Get(items.kids[1].v, "title").s
    ELSE Absent

\* the dependent step k qualifies for injection: its predecessor succeeded and
\* its title is unset or equal to the predecessor's query value
Injectable(k) ==
    /\ DeclaredDependent(k)
    /\ results[k - 1].success
    /\ \/ plan0[k].params.title = Absent
       \/ plan0[k].params.title = plan0[k - 1].params.query

\* C3 as stated: every call of an injectable dependent step carries the title
\* of the first item of the predecessor's result list.
C3_AsStated ==
    \A n \in 1..Len(calls) :
        Injectable(calls[n].idx) =>
            /\ FirstTitle(calls[n].idx) # Absent
            /\ calls[n].params.title = FirstTitle(calls[n].idx)

\* C3 amended: every call of an injectable dependent step whose predecessor's
\* result list is not empty carries the title of the first item of that list.
C3_InjectedTitle ==
    \A n \in 1..Len(calls) :
        (Injectable(calls[n].idx) /\ FirstTitle(calls[n].idx) # Absent) =>
            calls[n].params.title = FirstTitle(calls[n].idx)

\* C3 witness: a dependent step whose title equalled the query was dispatched
\* with the first title of the search
C3_Witness ==
    \E n \in 1..Len(calls) :
        /\ Injectable(calls[n].idx)
        /\ plan0[calls[n].idx].params.title = "Nepal"
        /\ calls[n].params.title = "Nepal (country)"

\* C4: execute_plan never raises; once it has returned every step has been
\* handed to _execute_step; a step whose tool is unknown has a failed outcome
\* with a tool-not-found error; a dependent step whose predecessor failed is
\* called with the parameters the plan gave it.
C4_FailuresDoNotStop ==
    /\ pc # "raised"
    /\ pc = "done" => \A k \in 1..Len(plan0) : CallsOf(k) # {}
    /\ \A k \in 1..Len(results) :
         plan0[k].tool \notin Registry =>
            /\ ~results[k].success
            /\ results[k].error = ErrorMsg("Tool not found", plan0[k].tool)
    /\ \A n \in 1..Len(calls) :
         (DeclaredDependent(calls[n].idx) /\ ~results[calls[n].idx - 1].success) =>
            calls[n].params = plan0[calls[n].idx].params

\* C4 witness: a plan has returned in which an unknown tool came first, the
\* search after it failed and the dependent step after that still produced an
\* outcome
C4_Witness ==
    /\ pc = "done" /\ Len(results) = 3
    /\ plan0[1].tool \notin Registry /\ ~results[1].success
    /\ DeclaredDependent(3) /\ ~results[2].success
    /\ results[3].success

\* the step _execute_step was called with by call n
StepOfCall(n) == [plan0[calls[n].idx] EXCEPT !.params = calls[n].params]

\* C5: every finished _execute_step call has returned one ToolResult for its
\* step's tool and none has raised; a call whose invocation raised a fault has
\* success = false and an execution-error message naming the fault.
C5_StepRunnerNeverRaises ==
    /\ \A k \in 1..Len(plan0) :
         task[k] = "done" =>
            /\ taskResult[k].kind = "return"
            /\ OutcomeOf(k).tool = plan0[k].tool
            /\ Cardinality(CallsOf(k)) = 1
    /\ \A n \in 1..Len(calls) :
         LET raw == TryStart(StepOfCall(n), calls[n].closedAt) IN
         raw.kind = "raise" =>
            /\ task[calls[n].idx] = "done"
            /\ OutcomeOf(calls[n].idx) =
                 ToolResult(plan0[calls[n].idx].tool, FALSE, None,
                            ErrorMsg("Execution error", raw.fault))

\* C5 witness: get_article_html raised RuntimeError on a closed client and a
\* get_summary without title raised TypeError; both are failed outcomes
C5_Witness ==
    \E j, k \in 1..Len(results) :
        /\ results[j].error = ErrorMsg("Execution error", "RuntimeError")
        /\ results[k].error = ErrorMsg("Execution error", "TypeError")

\* the first index of the batch that holds the independent step k
BatchStartOf(k) ==
    CHOOSE j \in 1..k :
        /\ j = 1 \/ DeclaredDependent(j - 1)
        /\ \A m \in (j + 1)..k : ~DeclaredDependent(m - 1)

\* C6: (independent = not declared-dependent) two consecutive independent
\* steps are members of the same batch; while the scheduler waits for a batch
\* every member has a task; a member is called with the plan's parameters and
\* with a result list that holds no outcome of its batch; the result list is in
\* plan order.
C6_BatchConcurrent ==
    /\ pc = "await_gather" =>
         /\ \A k \in Range(parallel_batch) : task[k] # "none"
         /\ \A k \in 1..(Len(plan0) - 1) :
              (~DeclaredDependent(k) /\ ~DeclaredDependent(k + 1)) =>
                 (k \in Range(parallel_batch) <=> k + 1 \in Range(parallel_batch))
    /\ \A n \in 1..Len(calls) :
         ~DeclaredDependent(calls[n].idx) =>
            /\ calls[n].nresults = BatchStartOf(calls[n].idx) - 1
            /\ calls[n].params = plan0[calls[n].idx].params
    /\ \A k \in 1..Len(results) : results[k] = OutcomeOf(k)

\* C6 witness: the first member of a batch is still in flight while the second,
\* started after it, has already returned its payload
C6_Witness ==
    /\ pc = "await_gather" /\ Len(parallel_batch) >= 2
    /\ task[1] = "inflight"
    /\ task[2] = "done" /\ OutcomeOf(2).success /\ Truthy(OutcomeOf(2).data)

-----------------------------------------------------------------------------
(* retry_api_call (src/tools/retry_utils.py): one call of an operation      *)
(* decorated with @retry_api_call(max_attempts=3), as tenacity runs it.     *)

MaxAttempts == 3
InitialWait == 1
MaxWait == 10
Multiplier == 2
ExpBase == 2

Min(a, b) == IF a <= b THEN a ELSE b
Max(a, b) == IF a >= b THEN a ELSE b
RECURSIVE Pow(_, _)
Pow(b, e) == IF e = 0 THEN 1 ELSE b * Pow(b, e - 1)

\* the faults an attempt may raise: httpx exceptions, and ValueError for a
\* response that is not JSON
Fault(type, status) == [type |-> type, status |-> status]
Faults ==
    {Fault(t, 0) : t \in {"ConnectError", "ReadTimeout", "ReadError", "ValueError"}}
    \cup {Fault("HTTPStatusError", c) : c \in {400, 404, 429, 500, 503}}

\* isinstance(exception, cls), along httpx's exception classes
IsInstance(exception, cls) ==
    \/ exception.type = cls
    \/ cls = "TimeoutException" /\ exception.type = "ReadTimeout"

\* what one attempt of the operation does
Ok == [kind |-> "return", fault |-> NoFault]
Raise(f) == [kind |-> "raise", fault |-> f]
AttemptOutcomes == {Ok} \cup {Raise(f) : f \in Faults}

should_retry_any_status(exception) ==
    \/ IsInstance(exception, "ConnectError") \/ IsInstance(exception, "TimeoutException")
    \/ IsInstance(exception, "HTTPStatusError")

should_retry_server_errors_only(exception) ==
    \/ IsInstance(exception, "ConnectError") \/ IsInstance(exception, "TimeoutException")
    \/ IsInstance(exception, "HTTPStatusError") /\ exception.status >= 500

\* lines 20-43
should_retry_http_error(exception) ==
    IF IsInstance(exception, "ConnectError") \/ IsInstance(exception, "TimeoutException")
    THEN TRUE
    ELSE IF IsInstance(exception, "HTTPStatusError")
    THEN exception.status >= 500 \/ exception.status = 429
    ELSE FALSE

\* lines 73-76: retry=...
RetryPredicate(exception) ==
    \/ IsInstance(exception, "ConnectError")
    \/ IsInstance(exception, "TimeoutException")
    \/ should_retry_http_error(exception)

\* line 65: stop_after_attempt(max_attempts)
StopAfterAttempt(attempt_number) == attempt_number >= MaxAttempts

WaitFixed(attempt_number) == InitialWait

\* lines 67-71: wait_exponential(multiplier, min, max) after attempt attempt_number:
\* max(max(0, min), min(multiplier * exp_base ** (attempt_number - 1), max))
WaitExponential(attempt_number) ==
    Max(Max(0, InitialWait), Min(Multiplier * Pow(ExpBase, attempt_number - 1), MaxWait))

RetryError == Fault("RetryError", 0)
WrapInRetryError(o) == Raise(RetryError)

\* line 82: reraise=True: when the attempts are used up the exception of the last
\* attempt is raised as it is, not inside a RetryError
Reraise(o) == o

ExecIdle ==
    /\ plan = <<>> /\ plan0 = <<>> /\ i = 1 /\ pc = "idle" /\ parallel_batch = <<>>
    /\ task = <<>> /\ taskResult = <<>> /\ results = <<>> /\ calls = <<>> /\ closed = {}
    /\ invocations = <<>>

\* the tools whose fetch runs under @retry_api_call (weather_tool.py:23, 112;
\* crypto_tool.py:18, 102, 152); the operations of github_tool.py, news_tool.py,
\* countries_tool.py and wikipedia_tool.py call self.client.get themselves
Decorated(tool) == tool \in {"weather", "crypto"}

\* the start of one call of WeatherTool._fetch_weather_data
RetryInit ==
    /\ rpc = "attempting"
    /\ attempt = 1
    /\ delays = <<>>
    /\ outcomes = <<>>
    /\ routcome = NoOutcome
    /\ rtool = "weather"
    /\ rresult = "none"
    /\ ExecIdle
    /\ VerifyIdle
    /\ PipeIdle

\* one attempt of the operation and tenacity's decision on its outcome
\* (lines 63-83: retry, stop, wait, reraise=True)
Attempt ==
    /\ rpc = "attempting" /\ Decorated(rtool)
    /\ \E o \in AttemptOutcomes :
        /\ outcomes' = Append(outcomes, o)
        /\ IF o.kind = "return"
           THEN rpc' = "returned" /\ routcome' = o /\ delays' = delays
           ELSE IF ~RetryPredicate(o.fault)
           THEN rpc' = "raised" /\ routcome' = o /\ delays' = delays
           ELSE IF StopAfterAttempt(attempt)
           THEN rpc' = "raised" /\ routcome' = Reraise(o) /\ delays' = delays
           ELSE /\ rpc' = "sleeping"
                /\ delays' = Append(delays, WaitExponential(attempt))
                /\ routcome' = routcome
    /\ UNCHANGED <<attempt, rtool, rresult, execVars, verifyVars, pipeVars>>

\* the sleep is over: the next attempt starts
Wake ==
    /\ rpc = "sleeping"
    /\ rpc' = "attempting"
    /\ attempt' = attempt + 1
    /\ UNCHANGED <<delays, outcomes, routcome, rtool, rresult, execVars, verifyVars, pipeVars>>

RetryNext == Attempt \/ Wake

RetrySpec == RetryInit /\ [][RetryNext]_vars

-----------------------------------------------------------------------------
(* One call of a tool's network-bound operation (src/tools/*.py): the remote *)
(* call, under the retry policy or not, and the payload the operation makes  *)
(* of what the remote call gave.                                             *)

NetworkTools == {"github", "weather", "news", "countries", "crypto", "wikipedia"}

ToolCallInit ==
    /\ rtool \in NetworkTools
    /\ rpc = "attempting"
    /\ attempt = 1
    /\ delays = <<>>
    /\ outcomes = <<>>
    /\ routcome = NoOutcome
    /\ rresult = "none"
    /\ ExecIdle
    /\ VerifyIdle
    /\ PipeIdle

\* the remote call of an operation without the decorator (e.g.
\* wikipedia_tool.py lines 39-42): what it raises goes to the except clauses
AttemptUndecorated ==
    /\ rpc = "attempting" /\ ~Decorated(rtool)
    /\ \E o \in AttemptOutcomes :
        /\ outcomes' = Append(outcomes, o)
        /\ routcome' = o
        /\ rpc' = IF o.kind = "return" THEN "returned" ELSE "raised"
    /\ UNCHANGED <<attempt, delays, rtool, rresult, execVars, verifyVars, pipeVars>>

\* the operation returns its payload: the formatted answer, or success = False
\* with an error text from an except clause (e.g. wikipedia_tool.py lines 58-73,
\* weather_tool.py lines 66-110); what no clause catches is caught by
\* _execute_step (executor.py lines 282-291)
ToolReturns ==
    /\ rpc \in {"returned", "raised"}
    /\ rresult' = IF rpc = "returned" THEN "success" ELSE "failure"
    /\ rpc' = "done"
    /\ UNCHANGED <<attempt, delays, outcomes, routcome, rtool, execVars, verifyVars, pipeVars>>

ToolCallNext == Attempt \/ Wake \/ AttemptUndecorated \/ ToolReturns

ToolCallSpec == ToolCallInit /\ [][ToolCallNext]_vars

-----------------------------------------------------------------------------
(* Properties of retry_api_call *)

\* a retryable fault in the sense of the retry policy: connectivity, timeout,
\* server error (5xx) or rate limit (429)
RetryableFault(f) ==
    \/ f.type \in {"ConnectError", "ReadTimeout"}
    \/ f.type = "HTTPStatusError" /\ (f.status \in 500..599 \/ f.status = 429)

\* a terminal fault: a 4xx status other than 429, or a malformed response
TerminalFault(f) ==
    \/ f.type = "HTTPStatusError" /\ f.status \in 400..499 /\ f.status # 429
    \/ f.type = "ValueError"

\* C7: two retryable failures followed by a success: the call returns the
\* success after exactly 3 attempts and exactly 2 sleeps, the second longer
\* than the first and neither longer than the cap.
C7_TwoFailuresThenSuccess ==
    ( /\ Len(outcomes) = 3
      /\ outcomes[1].kind = "raise" /\ RetryableFault(outcomes[1].fault)
      /\ outcomes[2].kind = "raise" /\ RetryableFault(outcomes[2].fault)
      /\ outcomes[3].kind = "return" )
    => /\ rpc = "returned" /\ routcome = Ok
       /\ attempt = 3
       /\ Len(delays) = 2
       /\ delays[1] < delays[2]
       /\ delays[1] <= MaxWait /\ delays[2] <= MaxWait

\* C7 witness: a rate-limit answer, then a timeout, then a success
C7_Witness ==
    /\ rpc = "returned" /\ Len(outcomes) = 3 /\ Len(delays) = 2
    /\ outcomes[1] = Raise(Fault("HTTPStatusError", 429))
    /\ outcomes[2] = Raise(Fault("ReadTimeout", 0))

\* C8: a terminal fault on the first attempt: exactly one attempt, no sleep,
\* and the caller gets that fault.
C8_TerminalFaultPropagates ==
    ( /\ Len(outcomes) >= 1
      /\ outcomes[1].kind = "raise" /\ TerminalFault(outcomes[1].fault) )
    => /\ rpc = "raised"
       /\ Len(outcomes) = 1 /\ attempt = 1
       /\ delays = <<>>
       /\ routcome = outcomes[1]

\* C8 witness: the first attempt was answered 404 and the call has raised
C8_Witness ==
    /\ rpc = "raised" /\ outcomes = <<Raise(Fault("HTTPStatusError", 404))>>

-----------------------------------------------------------------------------
(* VerifierAgent.verify_and_format (src/agents/verifier.py): the loop over  *)
(* the successful results that builds the details map and the sources list. *)

\* str(value) of a scalar, as an f-string formats it
Format(d) == IF d.t = "none" THEN "None" ELSE d.s

\* sub in s, for strings
Contains(s, sub) ==
    \E n \in 1..(Len(s) - Len(sub) + 1) : SubSeq(s, n, n + Len(sub) - 1) = sub

\* line 92: "url" in str(result.data): the text of a value shows every key and
\* every string of it
RECURSIVE MentionsUrl(_)
MentionsUrl(d) ==
    IF IsDict(d) \/ IsList(d)
    THEN \E n \in 1..Len(d.kids) :
            Contains(d.kids[n].k, "url") \/ MentionsUrl(d.kids[n].v)
    ELSE Contains(Format(d), "url")

\* lines 268-303: the label as a value, None when no branch returns one
GenerateContextLabel(tool_name, data) ==
    IF tool_name = "weather" /\ HasKey(data, "city")
    THEN Str("Weather for " \o Format(Get(data, "city")))
    ELSE IF tool_name = "github" /\ HasKey(data, "query")
    THEN LET query == Format(Get(data, "query")) IN
         Str("GitHub search: " \o
             (IF Len(query) > 50 THEN SubSeq(query, 1, 47) \o "..." ELSE query))
    ELSE IF tool_name = "news" /\ HasKey(data, "query")
    THEN Str("News about " \o Format(Get(data, "query")))
    ELSE IF tool_name = "wikipedia"
    THEN IF HasKey(data, "title")
         THEN Str("Wikipedia: " \o Format(Get(data, "title")))
         ELSE IF HasKey(data, "query")
         THEN Str("Wikipedia search: " \o Format(Get(data, "query")))
         ELSE None
    ELSE IF tool_name = "crypto" /\ HasKey(data, "coin")
    THEN Str("Crypto: " \o Format(Get(data, "coin")))
    ELSE IF tool_name = "countries"
    THEN IF HasKey(data, "name")
         THEN Str("Country: " \o Format(Get(data, "name")))
         ELSE IF HasKey(data, "region")
         THEN Str("Region: " \o Format(Get(data, "region")))
         ELSE None
    ELSE None

NoCopy(data) == [shared |-> TRUE, value |-> data]

\* line 61: result.data.copy() is a new dict object with the entries of the
\* payload; shared tells whether a write to it is a write to the payload
DictCopy(data) == [shared |-> FALSE, value |-> data]

\* lines 58-67, as seen from the caller: result.data once the label has been
\* written to result_with_context
InputAfterLabel(tool_name, data) ==
    IF IsDict(data) /\ DictCopy(data).shared
    THEN LET context_label == GenerateContextLabel(tool_name, data) IN
         IF Truthy(context_label) THEN SetKey(data, "_context", context_label) ELSE data
    ELSE data

\* the place in execution_result.results of the n-th successful outcome
SuccessIndex(res, n) ==
    CHOOSE m \in 1..Len(res) :
        res[m].success /\ Cardinality({q \in 1..m : res[q].success}) = n

\* lines 60-67: the copy of the payload, with its label when there is one
ResultWithContext(tool_name, data) ==
    IF IsDict(data)
    THEN LET context_label == GenerateContextLabel(tool_name, data) IN
         IF Truthy(context_label) THEN SetKey(data, "_context", context_label) ELSE data
    ELSE data

\* lines 74-77: the label of the entry already stored, when it is a dict
Backfilled(tool_name, existing) ==
    IF IsDict(existing)
    THEN LET existing_context == GenerateContextLabel(tool_name, existing) IN
         IF Truthy(existing_context)
         THEN SetKey(existing, "_context", existing_context)
         ELSE existing
    ELSE existing

StoreOverwrite(cd, tool_name, result_with_context) ==
    SetKey(cd, tool_name, result_with_context)

\* lines 70-81: group by tool: a single entry, a list from the second on
Store(cd, tool_name, result_with_context) ==
    IF HasKey(cd, tool_name)
    THEN LET existing == Get(cd, tool_name)
             as_list == IF ~IsList(existing)
                        THEN List(<<Backfilled(tool_name, existing)>>)
                        ELSE existing
         IN SetKey(cd, tool_name, List(Append(Items(as_list), result_with_context)))
    ELSE SetKey(cd, tool_name, result_with_context)

AddSourceNoCheck(src, value) == Append(src, value)

\* lines 310-311
AddSource(src, value) == IF value \in Range(src) THEN src ELSE Append(src, value)

\* lines 305-316: _extract_sources; ExtractEntries walks data.items() or the
\* items of a list from position n
RECURSIVE ExtractSources(_, _), ExtractEntries(_, _, _, _)
ExtractSources(data, src) ==
    IF IsDict(data) THEN ExtractEntries(data.kids, 1, TRUE, src)
    ELSE IF IsList(data) THEN ExtractEntries(data.kids, 1, FALSE, src)
    ELSE src
ExtractEntries(kids, n, in_dict, src) ==
    IF n > Len(kids) THEN src
    ELSE LET key == kids[n].k
             value == kids[n].v
             after ==
                IF in_dict /\ key \in {"url", "html_url"} /\ IsStr(value)
                THEN AddSource(src, value.s)
                ELSE IF in_dict /\ ~(IsDict(value) \/ IsList(value))
                THEN src
                ELSE ExtractSources(value, src)
         IN ExtractEntries(kids, n + 1, in_dict, after)

\* lines 39-40
SuccessfulSteps(res) == SelectSeq(res, LAMBDA r : r.success)
FailedSteps(res) == SelectSeq(res, LAMBDA r : ~r.success)

\* payloads the tools return (github_tool.py:61-73, 104-116; weather_tool.py:66-79;
\* wikipedia_tool.py:94-100) and a raw response as a _fetch_* operation returns it
WeatherPayload(city) ==
    Dict(<<Entry("success", Bool(TRUE)), Entry("city", Str(city)),
           Entry("temperature", Str("20C")),
           Entry("coordinates", Dict(<<Entry("lat", Str("1")), Entry("lon", Str("2"))>>))>>)
GithubSearchPayload ==
    Dict(<<Entry("success", Bool(TRUE)), Entry("query", Str("ml")),
           Entry("repositories",
                 List(<<Dict(<<Entry("name", Str("a/b")), Entry("url", Str("u1")),
                               Entry("topics", List(<<Str("curl")>>))>>),
                        Dict(<<Entry("name", Str("c/d")), Entry("url", Str("u2"))>>),
                        Dict(<<Entry("name", Str("a/b")), Entry("url", Str("u1"))>>)>>))>>)
GithubRepositoryPayload ==
    Dict(<<Entry("success", Bool(TRUE)), Entry("name", Str("c/d")),
           Entry("topics", List(<<>>)), Entry("url", Str("u2"))>>)
WikipediaSummaryPayload ==
    Dict(<<Entry("success", Bool(TRUE)), Entry("title", Str("Nepal")),
           Entry("extract", Str("text")), Entry("url", Str("u3")),
           Entry("thumbnail", None)>>)
RawPayload ==
    Dict(<<Entry("id", Str("bitcoin")),
           Entry("url", Dict(<<Entry("html_url", Str("u4")), Entry("thumb", Str("t"))>>)),
           Entry("tickers",
                 List(<<Dict(<<Entry("market",
                                     Dict(<<Entry("url", Str("u5")),
                                            Entry("html_url", Str("u3"))>>))>>),
                        List(<<Dict(<<Entry("url", Str("u4"))>>)>>)>>)),
           Entry("html_url", None)>>)

NewsNoHeadlinesPayload ==
    Dict(<<Entry("success", Bool(TRUE)), Entry("total_results", Str("0")),
           Entry("query", None), Entry("articles", List(<<>>)),
           Entry("suggestion", Str("Try using search_news"))>>)
WeatherCorrectedPayload ==
    SetKey(WeatherPayload("Bengaluru"), "correction_note", Str("Corrected Bengalore"))

\* the ToolResults _execute_step can hand over
ResultSamples ==
    { ToolResult("weather", TRUE, WeatherPayload("Paris"), NoError),
      ToolResult("weather", TRUE, WeatherPayload("Tokyo"), NoError),
      ToolResult("github", TRUE, GithubSearchPayload, NoError),
      ToolResult("github", TRUE, GithubRepositoryPayload, NoError),
      ToolResult("wikipedia", TRUE, WikipediaSummaryPayload, NoError),
      ToolResult("crypto", TRUE, RawPayload, NoError),
      ToolResult("wikipedia", TRUE, None, NoError),
      ToolResult("news", TRUE, NewsNoHeadlinesPayload, NoError),
      ToolResult("weather", TRUE, WeatherCorrectedPayload, NoError),
      ToolResult("weather", FALSE, None, ErrorMsg("message", "Weather API error")),
      ToolResult("github", FALSE, None, ErrorMsg("Execution error", "TypeError")),
      ToolResult("doesnotexist", FALSE, None, ErrorMsg("Tool not found", "doesnotexist")) }

\* the task verify_and_format is given
VerifyTask == "Get weather"

\* llm/client.py lines 14-19 and 99-104: get_llm_client() returns the singleton,
\* creating it first; LLMClient() raises ValueError without OPENAI_API_KEY
GetLlmClient(client, key) ==
    IF client = "ready" THEN [kind |-> "return", client |-> "ready"]
    ELSE IF key THEN [kind |-> "return", client |-> "ready"]
    ELSE [kind |-> "raise", client |-> "none"]

\* llm/client.py lines 68-92: generate_text returns the stripped content (""
\* when the message has none) or raises RuntimeError
NarratorAnswers == {"text", "empty", "fault"}

\* the error text of a ToolResult (executor.py lines 215, 224, 290), "" for None
ErrorText(r) ==
    CASE r.error.kind = "message" -> r.error.arg
      [] r.error.kind = "Tool not found" -> "Tool '" \o r.error.arg \o "' not found"
      [] r.error.kind = "Action not found" ->
            "Action '" \o r.error.arg \o "' not found in tool '" \o r.tool \o "'"
      [] r.error.kind = "Execution error" -> "Execution error: " \o r.error.arg
      [] OTHER -> ""

\* str.capitalize() of a tool id
Capitalize(tool) ==
    CASE tool = "weather" -> "Weather" [] tool = "github" -> "Github"
      [] tool = "news" -> "News" [] tool = "wikipedia" -> "Wikipedia"
      [] tool = "crypto" -> "Crypto" [] tool = "countries" -> "Countries"
      [] OTHER -> tool

\* lines 247-266
RECURSIVE RetrievedLines(_, _)
RetrievedLines(data, n) ==
    IF n > Len(data.kids) THEN ""
    ELSE "- " \o Capitalize(data.kids[n].k) \o " data retrieved\n" \o RetrievedLines(data, n + 1)
CreateFallbackSummary(task_text, data, failures) ==
    LET success_count == Len(data.kids)
        failure_count == Len(failures)
    IN "Task: " \o task_text \o "\n\n"
       \o "Executed " \o ToString(success_count + failure_count) \o " steps. "
       \o ToString(success_count) \o " successful, " \o ToString(failure_count) \o " failed.\n\n"
       \o (IF Truthy(data) THEN "Results:\n" \o RetrievedLines(data, 1) ELSE "")

GenerateSummaryNoFallback(answer, task_text, data, failures) ==
    IF answer = "text" THEN "## Summary" ELSE ""

\* lines 99-108 with 150-207: the narrator's text, or the fallback summary when
\* the narrator raises
GenerateSummary(answer, task_text, data, failures) ==
    IF answer = "fault" THEN CreateFallbackSummary(task_text, data, failures)
    ELSE IF answer = "empty" THEN ""
    ELSE "## Summary"

\* "\n".join(parts)
RECURSIVE StrJoin(_, _)
StrJoin(parts, sep) ==
    IF Len(parts) = 0 THEN ""
    ELSE IF Len(parts) = 1 THEN parts[1]
    ELSE parts[1] \o sep \o StrJoin(Tail(parts), sep)
JoinLines(parts) == StrJoin(parts, "\n")

\* f"{failed_tools}": the repr of a list of strings
PyListRepr(strs) == "[" \o StrJoin([n \in 1..Len(strs) |-> "'" \o strs[n] \o "'"], ", ") \o "]"

Bulleted(strs) == [n \in 1..Len(strs) |-> "- " \o strs[n]]

NotesPartsFirstFailureOnly(failed_steps, sugg, corr) ==
    IF Len(failed_steps) > 0
    THEN <<"Some steps failed: " \o PyListRepr(<<failed_steps[1].tool>>),
           "- " \o failed_steps[1].tool \o ": " \o ErrorText(failed_steps[1])>>
    ELSE <<>>

\* lines 115-135
NotesParts(failed_steps, sugg, corr) ==
    (IF Len(failed_steps) > 0
     THEN <<"Some steps failed: "
              \o PyListRepr([n \in 1..Len(failed_steps) |-> failed_steps[n].tool])>>
          \o [n \in 1..Len(SelectSeq(failed_steps, LAMBDA f : ErrorText(f) # "")) |->
                LET failed == SelectSeq(failed_steps, LAMBDA f : ErrorText(f) # "")[n]
                IN "- " \o failed.tool \o ": " \o ErrorText(failed)]
     ELSE <<>>)
    \o (IF Len(sugg) > 0 THEN <<"Suggestions:">> \o Bulleted(sugg) ELSE <<>>)
    \o (IF Len(corr) > 0 THEN <<"Corrections applied:">> \o Bulleted(corr) ELSE <<>>)
VerificationNotes(failed_steps, sugg, corr) ==
    LET notes_parts == NotesParts(failed_steps, sugg, corr) IN
    IF Len(notes_parts) > 0 THEN Str(JoinLines(notes_parts)) ELSE None

\* line 111
Verified(failed_steps) == Len(failed_steps) = 0

\* lines 84-89
WithField(list, data, key) ==
    IF IsDict(data) /\ HasKey(data, key) THEN Append(list, Format(Get(data, key))) ELSE list

\* verifier_step is about to build its VerifierAgent; planner_step, which runs
\* before it, has created the client singleton.
VerifyInit ==
    /\ vin \in UNION {[1..n -> ResultSamples] : n \in 0..MaxResults}
    /\ vpc = "new"
    /\ vpos = 0
    /\ collected_data = Dict(<<>>)
    /\ sources = <<>>
    /\ suggestions = <<>> /\ correction_notes = <<>>
    /\ llm_client = "ready"
    /\ openai_key = TRUE
    /\ summary = "" /\ verified = FALSE /\ verification_notes = None
    /\ vtask = VerifyTask /\ narration = "none"
    /\ ExecIdle
    /\ RetryIdle
    /\ PipeIdle

\* lines 18-19 and 36-53: VerifierAgent(), then the entry of verify_and_format
VerifierConstruct ==
    /\ vpc = "new"
    /\ LET got == GetLlmClient(llm_client, openai_key) IN
        /\ llm_client' = got.client
        /\ vpc' = IF got.kind = "raise" THEN "raised" ELSE "loop"
        /\ vpos' = IF got.kind = "raise" THEN 0 ELSE 1
    /\ UNCHANGED <<vin, collected_data, sources, suggestions, correction_notes, openai_key,
                   summary, verified, verification_notes, vtask, narration,
                   execVars, retryVars, pipeVars>>

\* lines 55-93: one iteration of the loop over successful_steps
VerifyStep ==
    /\ vpc = "loop" /\ vpos <= Len(SuccessfulSteps(vin))
    /\ LET result == SuccessfulSteps(vin)[vpos] IN
        IF Truthy(result.data)
        THEN /\ collected_data' =
                  Store(collected_data, result.tool,
                        ResultWithContext(result.tool, result.data))
             /\ suggestions' = WithField(suggestions, result.data, "suggestion")
             /\ correction_notes' = WithField(correction_notes, result.data, "correction_note")
             /\ sources' = IF MentionsUrl(result.data)
                           THEN ExtractSources(result.data, sources)
                           ELSE sources
             /\ vin' = [vin EXCEPT ![SuccessIndex(vin, vpos)].data =
                                  InputAfterLabel(result.tool, @)]
        ELSE UNCHANGED <<vin, collected_data, sources, suggestions, correction_notes>>
    /\ vpos' = vpos + 1
    /\ UNCHANGED <<vpc, llm_client, openai_key, summary, verified, verification_notes,
                   vtask, narration, execVars, retryVars, pipeVars>>

\* lines 95-148: the loop is over; the narrator is asked for the summary, the
\* verdict and the notes are made and the FinalResult is returned
VerifyFinish ==
    /\ vpc = "loop" /\ vpos > Len(SuccessfulSteps(vin))
    /\ \E answer \in NarratorAnswers :
         /\ narration' = answer
         /\ summary' = GenerateSummary(answer, vtask, collected_data, FailedSteps(vin))
    /\ verified' = Verified(FailedSteps(vin))
    /\ verification_notes' = VerificationNotes(FailedSteps(vin), suggestions, correction_notes)
    /\ vpc' = "done"
    /\ UNCHANGED <<vin, vpos, collected_data, sources, suggestions, correction_notes,
                   llm_client, openai_key, vtask, execVars, retryVars, pipeVars>>

VerifyNext == VerifierConstruct \/ VerifyStep \/ VerifyFinish

VerifySpec == VerifyInit /\ [][VerifyNext]_vars

-----------------------------------------------------------------------------
(* main.execute_task (src/main.py) over the step functions of               *)
(* workflows/ai_ops_workflow.py: one request to /api/task/execute.          *)

\* str.strip(): whitespace taken off both ends
IsSpace(c) == c \in {" ", "\t", "\n"}
RECURSIVE LStrip(_), RStrip(_)
LStrip(str) ==
    IF Len(str) > 0 /\ IsSpace(SubSeq(str, 1, 1))
    THEN LStrip(SubSeq(str, 2, Len(str))) ELSE str
RStrip(str) ==
    IF Len(str) > 0 /\ IsSpace(SubSeq(str, Len(str), Len(str)))
    THEN RStrip(SubSeq(str, 1, Len(str) - 1)) ELSE str

NoStrip(str) == str

\* main.py line 89
Strip(str) == RStrip(LStrip(str))

RequestTasks == {"", "  ", " \n\t", "Get weather", " Get weather\n"}

\* the keys the tools ask the environment for (weather_tool.py:17, news_tool.py:16)
ToolKeys == {"OPENWEATHERMAP_API_KEY", "NEWS_API_KEY"}

\* executor.py lines 30-37: the tools, in the order the dict literal builds them
ToolOrder == <<"github", "weather", "news", "countries", "crypto", "wikipedia">>

\* the environment variable the __init__ of a tool requires, "" when none
KeyOf(tool) ==
    CASE tool = "weather" -> "OPENWEATHERMAP_API_KEY"
      [] tool = "news"    -> "NEWS_API_KEY"
      [] OTHER            -> ""

\* the __init__ of the tool returns (and has opened an httpx.AsyncClient)
Constructs(tool, keys) == KeyOf(tool) = "" \/ KeyOf(tool) \in keys

\* the tools ExecutorAgent() has built when it returns or raises: those before
\* the first whose __init__ raises
BuiltTools(keys) ==
    {ToolOrder[n] : n \in {m \in 1..Len(ToolOrder) :
                              \A q \in 1..m : Constructs(ToolOrder[q], keys)}}

\* executor.py lines 293-297: ExecutorAgent.close closes the client of every tool
Released(tools) == {tool \in tools : "close" \in Attributes(tool)}

\* what the planner's LLM call and the parsing of its answer can do
\* (llm/client.py lines 32-66, planner.py lines 72-94)
PlannerAnswers == {"plan", "not_json", "api_error", "no_steps", "bad_step"}
PlannerFault(answer) ==
    CASE answer = "not_json" -> "ValueError"
      [] answer = "api_error" -> "RuntimeError"
      [] answer = "no_steps" -> "KeyError"
      [] answer = "bad_step" -> "ValidationError"
      [] OTHER -> ""

\* the steps a plan of the pipeline is made of, and the ToolResults a step can
\* end with
PipelineSteps ==
    { PlanStep("weather", "get_current_weather", Params(Absent, Absent, "Paris", Absent)),
      PlanStep("github", "search_repositories", Params(Absent, "ml", Absent, Absent)),
      PlanStep("github", "get_repository", NoParams),
      PlanStep("wikipedia", "get_summary", Params("Nepal", Absent, Absent, Absent)),
      PlanStep("wikipedia", "close", NoParams),
      PlanStep("crypto", "_fetch_market_data", NoParams),
      PlanStep("news", "get_top_headlines", NoParams),
      PlanStep("doesnotexist", "get_data", NoParams) }
PipelinePlans == UNION {[1..n -> PipelineSteps] : n \in 0..MaxResults}
ResultsFor(step) ==
    {r \in ResultSamples :
        /\ r.tool = step.tool
        /\ r.success =>
             CASE step.action = "search_repositories" -> r.data = GithubSearchPayload
               [] step.action = "get_repository" -> r.data = GithubRepositoryPayload
               [] step.action = "get_summary" -> r.data = WikipediaSummaryPayload
               [] step.action = "close" -> r.data = None
               [] OTHER -> TRUE}
RECURSIVE ResultLists(_)
ResultLists(steps) ==
    IF Len(steps) = 0 THEN {<<>>}
    ELSE {<<r>> \o rest : r \in ResultsFor(Head(steps)), rest \in ResultLists(Tail(steps))}

\* models/schemas.py lines 58-67
FinalResult(task_text, summ, details, srcs, execution_plan, raw_results, verif, notes) ==
    [task |-> task_text, summary |-> summ, details |-> details, sources |-> srcs,
     execution_plan |-> execution_plan, raw_results |-> raw_results,
     verified |-> verif, verification_notes |-> notes]

\* workflows/ai_ops_workflow.py lines 104-112: the dict verifier_step returns
VerifierStepDict(final, plan_dict) ==
    [task |-> final.task, summary |-> final.summary, details |-> final.details,
     sources |-> final.sources, execution_plan |-> plan_dict,
     verified |-> final.verified, verification_notes |-> final.verification_notes]

\* main.py lines 102-107: an exception of a stage ends the request with a 500
\* whose detail is the exception's text
RaiseInStage(stage, type) ==
    /\ fault' = [stage |-> stage, type |-> type]
    /\ http_status' = 500
    /\ body' = [detail |-> type]
    /\ ppc' = "responded"

PipeInit ==
    /\ request_task \in RequestTasks
    /\ tool_keys \in SUBSET ToolKeys
    /\ llm_client \in {"none", "ready"}
    /\ openai_key \in BOOLEAN
    /\ llm_client = "ready" => openai_key
    /\ ppc = "start"
    /\ stages = <<>>
    /\ plan_data = <<>>
    /\ execution_result = <<>>
    /\ fault = NoStageFault
    /\ http_status = 0
    /\ body = NoBody
    /\ open_handles = {}
    /\ VerifierAtRest
    /\ ExecIdle
    /\ RetryIdle

\* main.py lines 88-93
Validate ==
    /\ ppc = "start"
    /\ IF Strip(request_task) = ""
       THEN /\ http_status' = 400
            /\ body' = [detail |-> "Task cannot be empty"]
            /\ ppc' = "responded"
       ELSE /\ ppc' = "planner"
            /\ UNCHANGED <<http_status, body>>
    /\ UNCHANGED <<request_task, tool_keys, open_handles, stages, plan_data, execution_result, fault,
                   execVars, retryVars, verifyVars>>

\* main.py line 96: planner_step (workflow lines 11-37, planner.py lines 52-101)
PlannerStep ==
    /\ ppc = "planner"
    /\ stages' = Append(stages, "planner")
    /\ LET got == GetLlmClient(llm_client, openai_key) IN
        /\ llm_client' = got.client
        /\ IF got.kind = "raise"
           THEN RaiseInStage("planner", "ValueError") /\ plan_data' = plan_data
           ELSE \E answer \in PlannerAnswers, steps \in PipelinePlans :
                  IF answer = "plan"
                  THEN /\ plan_data' = steps
                       /\ ppc' = "executor"
                       /\ UNCHANGED <<fault, http_status, body>>
                  ELSE RaiseInStage("planner", PlannerFault(answer)) /\ plan_data' = plan_data
    /\ UNCHANGED <<request_task, tool_keys, open_handles, execution_result, openai_key, verifyData,
                   execVars, retryVars>>

\* main.py line 97: executor_step (workflow lines 40-68); ExecutorAgent() builds
\* every tool (executor.py lines 28-37) and WeatherTool and NewsTool raise
\* ValueError without their key
ExecutorStep ==
    /\ ppc = "executor"
    /\ stages' = Append(stages, "executor")
    /\ IF BuiltTools(tool_keys) # Range(ToolOrder)
       THEN /\ RaiseInStage("executor", "ValueError")
            /\ execution_result' = execution_result
            /\ open_handles' = open_handles \cup BuiltTools(tool_keys)
       ELSE /\ execution_result' \in ResultLists(plan_data)
            /\ open_handles' = (open_handles \cup BuiltTools(tool_keys))
                                   \ Released(BuiltTools(tool_keys))
            /\ ppc' = "verifier"
            /\ UNCHANGED <<fault, http_status, body>>
    /\ UNCHANGED <<request_task, tool_keys, plan_data, execVars, retryVars, verifyVars>>

\* main.py line 98: verifier_step is called (workflow lines 71-98)
VerifierStepEnter ==
    /\ ppc = "verifier"
    /\ stages' = Append(stages, "verifier")
    /\ vin' = execution_result
    /\ vtask' = Strip(request_task)
    /\ vpc' = "new"
    /\ ppc' = "in_verifier"
    /\ UNCHANGED <<request_task, tool_keys, open_handles, plan_data, execution_result, fault, http_status,
                   body, vpos, collected_data, sources, suggestions, correction_notes,
                   summary, verified, verification_notes, narration, llmVars,
                   execVars, retryVars>>

\* workflow lines 100-112 and main.py lines 98-107: verifier_step returns its
\* dict, which is the answer, or what it raised ends the request
VerifierStepReturn ==
    /\ ppc = "in_verifier" /\ vpc \in {"done", "raised"}
    /\ IF vpc = "raised"
       THEN RaiseInStage("verifier", "ValueError")
       ELSE /\ http_status' = 200
            /\ body' = VerifierStepDict(
                          FinalResult(vtask, summary, collected_data, sources, plan_data,
                                      vin, verified, verification_notes),
                          plan_data)
            /\ ppc' = "responded"
            /\ fault' = fault
    /\ UNCHANGED <<request_task, tool_keys, open_handles, stages, plan_data, execution_result,
                   execVars, retryVars, verifyVars>>

PipeNext ==
    \/ Validate
    \/ PlannerStep
    \/ ExecutorStep
    \/ VerifierStepEnter
    \/ VerifierConstruct
    \/ VerifyStep
    \/ VerifyFinish
    \/ VerifierStepReturn

PipelineSpec == PipeInit /\ [][PipeNext]_vars

-----------------------------------------------------------------------------
(* Properties of the aggregation *)

\* the successful outcomes of a tool, in plan order, and those that carry a
\* non-empty payload
SuccessesOf(tool) == SelectSeq(vin, LAMBDA r : r.success /\ r.tool = tool)
PayloadsOf(tool) ==
    SelectSeq(vin, LAMBDA r : r.success /\ r.tool = tool /\ Truthy(r.data))
ToolsIn(res) == {res[n].tool : n \in 1..Len(res)}

Tagged(entry) == HasKey(entry, "_context") /\ Truthy(Get(entry, "_context"))
StripContext(entry) == Dict(SelectSeq(entry.kids, LAMBDA e : e.k # "_context"))

\* the payload has a field its tool's label is made from
HasLabelField(tool, payload) ==
    CASE tool = "weather"   -> HasKey(payload, "city")
      [] tool = "github"    -> HasKey(payload, "query")
      [] tool = "news"      -> HasKey(payload, "query")
      [] tool = "wikipedia" -> HasKey(payload, "title") \/ HasKey(payload, "query")
      [] tool = "crypto"    -> HasKey(payload, "coin")
      [] tool = "countries" -> HasKey(payload, "name") \/ HasKey(payload, "region")
      [] OTHER              -> FALSE

\* C9 as stated: a tool with k >= 2 successful outcomes has a list of exactly k
\* tagged entries in plan order under its key, a tool with one successful
\* outcome a single tagged payload.
C9_AsStated ==
    vpc = "done" =>
        \A tool \in ToolsIn(vin) :
            LET succ == SuccessesOf(tool)
                entry == Get(collected_data, tool)
            IN /\ Len(succ) >= 2 =>
                    /\ IsList(entry) /\ Len(entry.kids) = Len(succ)
                    /\ \A n \in 1..Len(succ) :
                         /\ Tagged(Items(entry)[n])
                         /\ StripContext(Items(entry)[n]) = succ[n].data
               /\ Len(succ) = 1 =>
                    /\ IsDict(entry) /\ Tagged(entry)
                    /\ StripContext(entry) = succ[1].data

\* C9 amended: counting the successful outcomes that carry a non-empty payload,
\* a tool with k >= 2 of them has a list of exactly k entries in plan order, a
\* tool with one a single entry, a tool with none no key; an entry is its
\* outcome's payload plus a _context label, which is there whenever the payload
\* has a label field of its tool.
C9_GroupedByTool ==
    vpc = "done" =>
        \A tool \in ToolsIn(vin) :
            LET succ == PayloadsOf(tool)
                entry == Get(collected_data, tool)
                IsEntryOf(e, r) ==
                    /\ IsDict(e) /\ StripContext(e) = r.data
                    /\ HasLabelField(tool, r.data) => Tagged(e)
            IN /\ Len(succ) >= 2 =>
                    /\ IsList(entry) /\ Len(entry.kids) = Len(succ)
                    /\ \A n \in 1..Len(succ) : IsEntryOf(Items(entry)[n], succ[n])
               /\ Len(succ) = 1 => IsEntryOf(entry, succ[1])
               /\ Len(succ) = 0 => ~HasKey(collected_data, tool)

\* C9 witness: weather was called for Paris, Tokyo and Paris again: three
\* labelled entries in that order
C9_Witness ==
    /\ vpc = "done" /\ Len(PayloadsOf("weather")) = 3
    /\ LET entries == Items(Get(collected_data, "weather")) IN
        /\ Len(entries) = 3
        /\ Get(entries[1], "_context") = Str("Weather for Paris")
        /\ Get(entries[2], "_context") = Str("Weather for Tokyo")
        /\ Get(entries[3], "_context") = Str("Weather for Paris")

\* every string directly under a key url or html_url of a value, at any depth,
\* in traversal order, with repetitions
RECURSIVE UrlOccurrences(_), UrlOccurrencesFrom(_, _)
UrlOccurrences(d) ==
    IF IsDict(d) \/ IsList(d) THEN UrlOccurrencesFrom(d, 1) ELSE <<>>
UrlOccurrencesFrom(d, n) ==
    IF n > Len(d.kids) THEN <<>>
    ELSE (IF IsDict(d) /\ d.kids[n].k \in {"url", "html_url"} /\ IsStr(d.kids[n].v)
          THEN <<d.kids[n].v.s>>
          ELSE UrlOccurrences(d.kids[n].v))
         \o UrlOccurrencesFrom(d, n + 1)

RECURSIVE OccurrencesIn(_, _)
OccurrencesIn(res, n) ==
    IF n > Len(res) THEN <<>>
    ELSE UrlOccurrences(res[n].data) \o OccurrencesIn(res, n + 1)

FirstIndex(seq, x) == CHOOSE n \in 1..Len(seq) : seq[n] = x /\ \A m \in 1..(n - 1) : seq[m] # x

\* C10: when the loop is over, sources holds exactly the strings found under a
\* url or html_url key of a successful payload, each once, in the order in
\* which they are first met (plan order, then traversal order).
C10_SourcesExactlyOnce ==
    vpc = "done" =>
        LET occ == OccurrencesIn(SuccessfulSteps(vin), 1) IN
        /\ Range(sources) = Range(occ)
        /\ \A a, b \in 1..Len(sources) : a # b => sources[a] # sources[b]
        /\ \A a, b \in 1..Len(sources) :
             a < b => FirstIndex(occ, sources[a]) < FirstIndex(occ, sources[b])

\* C10 witness: a wikipedia summary, then a raw payload with nested and
\* repeated links, then a github search that repeats a link
C10_Witness ==
    /\ vpc = "done" /\ Len(vin) = 3
    /\ vin[1].data = WikipediaSummaryPayload /\ vin[2].data = RawPayload
    /\ vin[3].data = GithubSearchPayload
    /\ sources = <<"u3", "u4", "u5", "u1", "u2">>

-----------------------------------------------------------------------------
(* More properties of retry_api_call *)

\* C15 as stated: the k-th sleep lasts min(cap, initial * multiplier^(k-1)):
\* 1 s after the first failed attempt, 2 s after the second.
C15_AsStated ==
    \A k \in 1..Len(delays) :
        delays[k] = Min(MaxWait, InitialWait * Pow(Multiplier, k - 1))

\* C16: an operation is attempted at most max_attempts times, and when the call
\* raises, what it raises is the fault of its last attempt, as that attempt
\* raised it; a failed last attempt always raises.
C16_BoundedAndUnwrapped ==
    /\ Len(outcomes) <= MaxAttempts /\ attempt <= MaxAttempts
    /\ rpc = "raised" =>
         /\ Last(outcomes).kind = "raise"
         /\ routcome = Last(outcomes)
         /\ routcome.fault \in Faults
    /\ (Len(outcomes) = MaxAttempts /\ Last(outcomes).kind = "raise") =>
         rpc = "raised"

\* C16 witness: three different retryable faults; the call raised the third
C16_Witness ==
    /\ rpc = "raised"
    /\ outcomes = <<Raise(Fault("ConnectError", 0)), Raise(Fault("HTTPStatusError", 500)),
                    Raise(Fault("HTTPStatusError", 503))>>
    /\ routcome = Raise(Fault("HTTPStatusError", 503))

\* C17: a failed attempt that is not the last allowed one is followed by a
\* sleep and another attempt if and only if its fault is a connect error, a
\* timeout, or a status fault with a 5xx or 429 status; after any other fault
\* the call has raised and no attempt follows.
C17_RetriedIffRetryable ==
    \A n \in 1..Len(outcomes) :
        (outcomes[n].kind = "raise" /\ n < MaxAttempts) =>
            IF RetryableFault(outcomes[n].fault)
            THEN \/ Len(outcomes) > n /\ Len(delays) >= n
                 \/ rpc = "sleeping" /\ attempt = n /\ Len(delays) = n
                 \/ rpc = "attempting" /\ attempt = n + 1 /\ Len(delays) = n
            ELSE Len(outcomes) = n /\ rpc = "raised" /\ Len(delays) = n - 1

\* C17 witness: a 429 was retried, and the read error that followed was not
C17_Witness ==
    /\ rpc = "raised"
    /\ outcomes = <<Raise(Fault("HTTPStatusError", 429)), Raise(Fault("ReadError", 0))>>
    /\ delays = <<2>>

-----------------------------------------------------------------------------
(* Properties of the verdict *)

\* C11: when verify_and_format has returned, verified is true exactly when no
\* outcome failed; with a failed outcome the notes are a non-empty text that
\* names the tool of every failed outcome, with its error message when it has
\* one; verify_and_format, once entered, does not raise.
C11_VerdictAndNotes ==
    /\ vpc = "done" =>
         LET failed == FailedSteps(vin) IN
         /\ verified <=> Len(failed) = 0
         /\ Len(failed) > 0 =>
              /\ ~verified
              /\ IsStr(verification_notes) /\ verification_notes.s # ""
              /\ \A n \in 1..Len(failed) :
                   /\ Contains(verification_notes.s, "'" \o failed[n].tool \o "'")
                   /\ ErrorText(failed[n]) # "" =>
                        Contains(verification_notes.s,
                                 "- " \o failed[n].tool \o ": " \o ErrorText(failed[n]))
    /\ vpc = "raised" => vpos = 0

\* C11 witness: a success between two failures of different tools
C11_Witness ==
    /\ vpc = "done" /\ Len(vin) = 3
    /\ ~vin[1].success /\ vin[2].success /\ ~vin[3].success
    /\ vin[1].tool = "github" /\ vin[3].tool = "doesnotexist"
    /\ ~verified
    /\ verification_notes =
         Str("Some steps failed: ['github', 'doesnotexist']\n"
             \o "- github: Execution error: TypeError\n"
             \o "- doesnotexist: Tool 'doesnotexist' not found")

\* C12: in a request, the verifier stage does not raise; when the narrator
\* faulted (unreachable, or its call raised) the summary is the fallback text,
\* which names the task and the number of failed outcomes, and the request
\* that reached the verifier is answered 200 with that summary.
C12_NarratorFaultFallsBack ==
    /\ vpc # "raised" /\ fault.stage # "verifier"
    /\ (vpc = "done" /\ narration = "fault") =>
         /\ Contains(summary, "Task: " \o vtask)
         /\ Contains(summary, ToString(Len(FailedSteps(vin))) \o " failed.")
    /\ (ppc = "responded" /\ stages = <<"planner", "executor", "verifier">>) =>
         /\ http_status = 200
         /\ body.summary = summary

\* C12 witness: the narrator faulted after a plan with one failed and one
\* successful outcome, and the request was answered 200
C12_Witness ==
    /\ ppc = "responded" /\ http_status = 200 /\ narration = "fault"
    /\ Len(vin) = 2 /\ ~vin[1].success /\ vin[2].success
    /\ body.summary = "Task: Get weather\n\nExecuted 2 steps. 1 successful, 1 failed.\n\n"
                      \o "Results:\n- Weather data retrieved\n"

\* the fields of the answer, under the names the entry point gives them
ResponseFields ==
    {"task", "summary", "details", "sources", "execution_plan", "raw_results",
     "verified", "verification_notes"}

\* C13 as stated: every 200 answer carries task, summary, details, sources,
\* executionPlan, rawResults, verified and verificationNotes.
C13_AsStated ==
    http_status = 200 => ResponseFields \subseteq DOMAIN body

\* a task of nothing but whitespace
Blank(str) == \A n \in 1..Len(str) : SubSeq(str, n, n) \in {" ", "\t", "\n"}

IsPrefix(a, b) == Len(a) <= Len(b) /\ \A n \in 1..Len(a) : a[n] = b[n]

\* C14: a blank task is answered 400 and no stage is invoked for it; the
\* stages are invoked in the order planner, executor, verifier; the answer is
\* 400 exactly for a blank task and 500 exactly when a stage raised, and then
\* the stage that raised is the last one invoked; a 200 answer comes after all
\* three stages.
C14_StatusAndStageOrder ==
    /\ Blank(request_task) => stages = <<>>
    /\ IsPrefix(stages, <<"planner", "executor", "verifier">>)
    /\ ppc # "responded" => http_status = 0 /\ fault = NoStageFault
    /\ ppc = "responded" =>
         /\ http_status \in {200, 400, 500}
         /\ http_status = 400 <=> Blank(request_task)
         /\ http_status = 500 <=> fault.stage # ""
         /\ fault.stage # "" => stages # <<>> /\ Last(stages) = fault.stage
         /\ http_status = 200 => stages = <<"planner", "executor", "verifier">>

\* C14 witness: the planner returned a plan, the executor could not be built
\* without the news key, and the request was answered 500 without the verifier
C14_Witness ==
    /\ ppc = "responded" /\ http_status = 500
    /\ fault = [stage |-> "executor", type |-> "ValueError"]
    /\ stages = <<"planner", "executor">>
    /\ Len(plan_data) > 0 /\ vpc = "idle"

\* C18 as stated: whatever the tool, an operation whose remote call met a
\* transient fault (connect error, timeout, 5xx, 429) ends as a failure only
\* after the remote call has been attempted max_attempts times.
C18_AsStated ==
    (rpc = "done" /\ rresult = "failure" /\ RetryableFault(routcome.fault)) =>
        Len(outcomes) = MaxAttempts

-----------------------------------------------------------------------------
(* More properties of execute_plan *)

Unfinished(k) == task[k] \in {"created", "inflight"}

\* C19: a step is unfinished only while the scheduler waits for its batch (or,
\* for the dependent step, for that step alone), and whenever a step is
\* started every other unfinished step is a member of the same batch: no step
\* of a later batch and no dependent step starts while a member of an earlier
\* batch is in flight.
C19_BatchSynchronous ==
    /\ [](\A k \in 1..Len(plan) :
            Unfinished(k) =>
               \/ pc = "await_gather" /\ k \in Range(parallel_batch)
               \/ pc = "await_dependent" /\ k = i)
    /\ [][Len(calls') > Len(calls) =>
            LET k == calls'[Len(calls')].idx IN
            \A j \in 1..Len(plan) :
               (Unfinished(j) /\ j # k) =>
                  /\ pc = "await_gather"
                  /\ j \in Range(parallel_batch) /\ k \in Range(parallel_batch)]_vars

\* C19 witness: of a batch of two, the first member has finished and the second
\* is in flight; the dependent step after the batch has not been started
C19_Witness ==
    /\ pc = "await_gather" /\ parallel_batch = <<1, 2>>
    /\ task[1] = "done" /\ task[2] = "inflight"
    /\ Len(plan0) = 3 /\ DeclaredDependent(3) /\ task[3] = "none"
    /\ CallsOf(3) = {}

\* C20: a batch is a run of consecutive steps none of which is declared
\* dependent; it starts at the first step or right after a dependent step and
\* ends right before a dependent step or at the end of the plan; the step run
\* on its own is a declared-dependent step, run when all steps before it have
\* finished and none after it has started.
C20_BatchesMaximal ==
    /\ \A k \in Range(parallel_batch) : ~DeclaredDependent(k)
    /\ pc = "await_gather" =>
         LET b == parallel_batch IN
         /\ Len(b) >= 1
         /\ \A n \in 1..Len(b) : b[n] = b[1] + n - 1
         /\ b[1] = 1 \/ DeclaredDependent(b[1] - 1)
         /\ i = Last(b) + 1
         /\ i > Len(plan0) \/ DeclaredDependent(i)
    /\ pc \in {"dependent", "await_dependent"} =>
         /\ i <= Len(plan0) /\ DeclaredDependent(i)
         /\ \A k \in 1..(i - 1) : task[k] = "done"
         /\ Len(results) = i - 1
         /\ \A k \in (i + 1)..Len(plan0) : task[k] = "none"

\* C20 witness: after a search and its dependent summary, the third step forms
\* a batch of its own
C20_Witness ==
    /\ pc = "await_gather" /\ parallel_batch = <<3>> /\ i = 4
    /\ DeclaredDependent(2) /\ Len(results) = 2


-----------------------------------------------------------------------------
(* Properties of parameter injection and step resolution *)

\* the dependent step k carries a title of its own, distinct from the query of
\* the search before it
ExplicitTitle(k) ==
    /\ DeclaredDependent(k)
    /\ plan0[k].params.title # Absent
    /\ plan0[k].params.title # plan0[k - 1].params.query

\* C21: a dependent step whose title is present and differs from the
\* predecessor's query value is called with the parameters the plan gave it,
\* whatever the predecessor returned; so is a dependent step whose predecessor
\* failed or returned no payload.
C21_NoOverride ==
    \A n \in 1..Len(calls) :
        LET k == calls[n].idx IN
        DeclaredDependent(k) =>
            /\ ExplicitTitle(k) => calls[n].params = plan0[k].params
            /\ (~results[k - 1].success \/ ~Truthy(results[k - 1].data)) =>
                   calls[n].params = plan0[k].params

\* C21 witness: the search returned items, and the dependent step after it was
\* called with the distinct title it came with
C21_Witness ==
    \E n \in 1..Len(calls) :
        /\ ExplicitTitle(calls[n].idx)
        /\ results[calls[n].idx - 1].success
        /\ FirstTitle(calls[n].idx) = "Nepal (country)"
        /\ calls[n].params.title = "Everest"

\* C22 as stated: a finished step whose tool is not in the registry has a
\* failed outcome with a tool-not-found error, a finished step whose action is
\* not an operation of its tool has a failed outcome with an action-not-found
\* error, and in both cases no operation was called.
C22_AsStated ==
    \A k \in 1..Len(plan0) :
        task[k] = "done" =>
            /\ plan0[k].tool \notin Registry =>
                  /\ OutcomeOf(k) = ToolResult(plan0[k].tool, FALSE, None,
                                               ErrorMsg("Tool not found", plan0[k].tool))
                  /\ ~invocations[k].called
            /\ (plan0[k].tool \in Registry /\ plan0[k].action \notin Operations(plan0[k].tool)) =>
                  /\ OutcomeOf(k) = ToolResult(plan0[k].tool, FALSE, None,
                                               ErrorMsg("Action not found", plan0[k].action))
                  /\ ~invocations[k].called

-----------------------------------------------------------------------------
(* Properties of the tools' connection handles *)

\* C23 as stated: the handles of the tools are released only by
\* ExecutorAgent.close after execute_plan has returned; while a step of the
\* plan is pending or in flight, or the plan has not yet returned, no handle
\* has been released.
C23_AsStated ==
    /\ pc # "closed" => closed = {}
    /\ (\E k \in 1..Len(plan0) : task[k] # "done") => closed = {}

-----------------------------------------------------------------------------
(* Properties of parameter filtering and result normalization *)

\* the keys of params that the operation of the step does not accept
SurplusKeys(step) ==
    {key \in ParamKeys : step.params[key] # Absent
                         /\ key \notin ValidParams(step.tool, step.action)}

\* C24: an operation is called with exactly the entries of step.params whose
\* key is among the parameter names it accepts; a step with surplus keys whose
\* accepted parameters are all present is still called and does not fail with
\* an argument error; the params of the step are what they were when
\* _execute_step was called.
C24_ParamFiltering ==
    \A n \in 1..Len(calls) :
        LET k == calls[n].idx
            step == StepOfCall(n)
            valid == ValidParams(step.tool, step.action)
        IN
        /\ invocations[k].called =>
              \A key \in ParamKeys :
                  invocations[k].kwargs[key] =
                      IF key \in valid THEN calls[n].params[key] ELSE Absent
        /\ (/\ SurplusKeys(step) # {}
            /\ step.tool \in Registry /\ step.action \in Attributes(step.tool)
            /\ \A key \in valid : step.params[key] # Absent) =>
              /\ invocations[k].called
              /\ task[k] = "done" =>
                    OutcomeOf(k).error # ErrorMsg("Execution error", "TypeError")
        /\ plan[k].params = calls[n].params

\* C24 witness: the weather step that came with city, query and an unknown key
\* was called with the city alone and succeeded, its params still holding all
\* three
C24_Witness ==
    \E n \in 1..Len(calls) :
        LET k == calls[n].idx IN
        /\ SurplusKeys(StepOfCall(n)) = {"query", "extra"}
        /\ invocations[k].called
        /\ invocations[k].kwargs = Params(Absent, Absent, "Paris", Absent)
        /\ task[k] = "done" /\ OutcomeOf(k).success
        /\ plan[k].params = Params(Absent, "Paris", "Paris", "hourly")

\* C25: the outcome of a step whose operation answered follows the payload: with
\* a success flag the outcome's success is the flag, and a false flag gives the
\* payload's error message; without a flag the outcome is a success.  In every
\* outcome success = true goes with no error, and success = false with no data
\* and an error.
C25_Normalized ==
    \A k \in 1..Len(plan0) :
        task[k] = "done" =>
            /\ invocations[k].answered =>
                  LET payload == invocations[k].payload IN
                  IF HasKey(payload, "success")
                  THEN /\ OutcomeOf(k).success = (Get(payload, "success") = Bool(TRUE))
                       /\ ~OutcomeOf(k).success =>
                             OutcomeOf(k).error =
                                 ErrorMsg("message", Get(payload, "error").s)
                  ELSE OutcomeOf(k).success
            /\ OutcomeOf(k).success => OutcomeOf(k).error = NoError
            /\ ~OutcomeOf(k).success =>
                  /\ OutcomeOf(k).data = None
                  /\ OutcomeOf(k).error # NoError

\* C25 witness: of three answered steps one returned a payload flagged false,
\* one a payload flagged true and one a payload without a flag
C25_Witness ==
    \E j, k, l \in 1..Len(results) :
        /\ invocations[j].answered /\ invocations[k].answered /\ invocations[l].answered
        /\ Get(invocations[j].payload, "success") = Bool(FALSE)
        /\ results[j].error = ErrorMsg("message", "Weather API error")
        /\ Get(invocations[k].payload, "success") = Bool(TRUE) /\ results[k].success
        /\ ~HasKey(invocations[l].payload, "success") /\ results[l].success

-----------------------------------------------------------------------------
(* Properties of the scheduler: frame and termination *)

\* the steps whose entry in the plan differs between two plans
ChangedSteps(before, after) == {k \in 1..Len(before) : after[k] # before[k]}

\* C26, in every state: the plan keeps its length, every step keeps its tool
\* and action, a step that is not declared dependent keeps its params, and a
\* declared-dependent step keeps every entry of its params but title.
C26_PlanFrame ==
    /\ Len(plan) = Len(plan0)
    /\ \A k \in 1..Len(plan0) :
         /\ plan[k].tool = plan0[k].tool /\ plan[k].action = plan0[k].action
         /\ ~DeclaredDependent(k) => plan[k].params = plan0[k].params
         /\ \A key \in ParamKeys \ {"title"} : plan[k].params[key] = plan0[k].params[key]

\* C26, in every step of execute_plan that changes the plan: one step is
\* changed, it is declared dependent, it had the params the plan came with (so
\* it is changed once), and it had not been handed to _execute_step before.
C26_MutationStep ==
    plan' # plan =>
        \E k \in 1..Len(plan0) :
            /\ ChangedSteps(plan, plan') = {k}
            /\ DeclaredDependent(k)
            /\ plan[k] = plan0[k]
            /\ CallsOf(k) = {}
            /\ task[k] = "none"

\* C26: the scheduler changes the params of a step at most once, only for a
\* declared-dependent step, only its title, and only before the step is
\* dispatched; the rest of the plan is unchanged by execute_plan.
C26_ParamsMutatedOnce == []C26_PlanFrame /\ [][C26_MutationStep]_vars

\* C26 witness: execute_plan has returned with the title of the dependent
\* second step rewritten and the first step as it came
C26_Witness ==
    /\ pc = "done" /\ DeclaredDependent(2)
    /\ plan[2].params.title = "Nepal (country)" /\ plan0[2].params.title = "Nepal"
    /\ plan[1] = plan0[1]

\* C27, in every state: no step has been handed to _execute_step more than
\* once, the result list holds the steps before i whenever the outer loop is
\* at its head, and once execute_plan has returned every step has been handed
\* over exactly once.
C27_EachStepOnce ==
    /\ \A k \in 1..Len(plan0) : Cardinality(CallsOf(k)) <= 1
    /\ pc = "loop" => Len(results) = i - 1
    /\ pc \in {"done", "closed"} =>
          \A k \in 1..Len(plan0) : Cardinality(CallsOf(k)) = 1

\* C27, in every step: the loop index never goes back; an iteration of the
\* outer loop that builds a batch moves it past the batch, and one that
\* handles a dependent step moves it past that step.
C27_IterationConsumes ==
    /\ i' >= i
    /\ (pc = "loop" /\ pc' = "await_gather") => i' > i
    /\ (pc = "await_dependent" /\ pc' = "loop") => i' = i + 1
    /\ (pc # "loop" /\ pc' = "loop") => Len(results') = i' - 1

\* C27: execute_plan returns for every plan when each awaited operation
\* answers, it hands every step to _execute_step exactly once, and each
\* iteration of its outer loop consumes at least one step.
C27_TerminatesEachStepOnce ==
    /\ <>(pc = "done")
    /\ []C27_EachStepOnce
    /\ [][C27_IterationConsumes]_vars

\* C27 witness: a plan of three steps has returned after two iterations of the
\* outer loop, a batch of two and a dependent step, with one call per step
C27_Witness ==
    /\ pc = "done" /\ Len(plan0) = 3 /\ DeclaredDependent(3)
    /\ Len(calls) = 3 /\ \A k \in 1..3 : Cardinality(CallsOf(k)) = 1

-----------------------------------------------------------------------------
(* Properties of the verifier: frame of the aggregation, fallback summary *)

\* the grouped entry keeps every field of the payload with its value
KeepsFields(entry, payload) ==
    /\ IsDict(entry)
    /\ \A key \in Keys(payload) : HasKey(entry, key) /\ Get(entry, key) = Get(payload, key)

\* C28, when verify_and_format has returned: every grouped entry holds all
\* fields of the payload it was made from, with their values.
C28_FieldsKept ==
    vpc = "done" =>
        \A tool \in ToolsIn(vin) :
            LET succ == PayloadsOf(tool)
                entry == Get(collected_data, tool)
            IN /\ Len(succ) >= 2 =>
                    /\ IsList(entry) /\ Len(entry.kids) = Len(succ)
                    /\ \A n \in 1..Len(succ) : KeepsFields(Items(entry)[n], succ[n].data)
               /\ Len(succ) = 1 => KeepsFields(entry, succ[1].data)

\* C28: no step of verify_and_format changes a ToolResult of the execution
\* result it was given, and every grouped entry holds all original fields of
\* its payload with their original values, the label being one more field.
C28_InputUntouched == [][vin' = vin]_vars /\ []C28_FieldsKept

\* C28 witness: two weather payloads were grouped and labelled, the label of
\* the first written when the second arrived, and neither payload of the
\* execution result has a label
C28_Witness ==
    /\ vpc = "done" /\ Len(PayloadsOf("weather")) = 2
    /\ \A n \in 1..2 :
         /\ Tagged(Items(Get(collected_data, "weather"))[n])
         /\ ~HasKey(PayloadsOf("weather")[n].data, "_context")

\* C29 as stated: once executor_step has returned or raised, every tool
\* connection handle that was created has been released.
C29_AsStated ==
    (\E n \in 1..Len(stages) : stages[n] = "executor") => open_handles = {}

StartsWith(str, prefix) ==
    Len(prefix) <= Len(str) /\ SubSeq(str, 1, Len(prefix)) = prefix

\* C30 as stated: the fallback summary reports as executed the number of
\* outcomes of the execution result (one per plan step), as successful the
\* number of successful outcomes and as failed the number of failed outcomes.
C30_AsStated ==
    (vpc = "done" /\ narration = "fault") =>
        StartsWith(summary,
                   "Task: " \o vtask \o "\n\n"
                   \o "Executed " \o ToString(Len(vin)) \o " steps. "
                   \o ToString(Len(SuccessfulSteps(vin))) \o " successful, "
                   \o ToString(Len(FailedSteps(vin))) \o " failed.")

=============================================================================
